---- MODULE Spec2Model ----
(***************************************************************************)
(* Model of plot.py: the grouped bar plotter bar_subplot / bar_plot, the   *)
(* two module-level palettes it cycles through, and the calls it makes on  *)
(* the plotting collaborator (matplotlib axes, figure and pyplot).         *)
(*                                                                         *)
(* Python floats are IEEE-754 binary64.  A float is modelled here as a     *)
(* sign and a magnitude held in fixed point: limbs of LimbBits bits, least  *)
(* significant first, bit k weighing 2^(k - FracBits).  Every              *)
(* arithmetic operation computes the exact result and rounds it to         *)
(* Precision significant bits, ties to even, as the hardware does.  All    *)
(* values the plotter computes lie well inside the range where binary64    *)
(* is normal, so exponent overflow and subnormals never arise.             *)
(***************************************************************************)
EXTENDS Integers, Sequences, FiniteSets, TLC

\* Significant bits of a binary64 float.
Precision == 53

\* Fixed-point frame that holds every value of the model exactly: limbs of
\* LimbBits bits, FracLimbs of them below the binary point and IntLimbs above.
LimbBits == 15
FracLimbs == 5
IntLimbs == 1
Limbs == FracLimbs + IntLimbs
Base == 2 ^ LimbBits
FracBits == FracLimbs * LimbBits

ZeroMag == [k \in 1..Limbs |-> 0]

\* Bit k (counted from 0, the least significant) of a magnitude.
BitAt(a, k) == (a[(k \div LimbBits) + 1] \div (2 ^ (k % LimbBits))) % 2

\* The magnitude whose only set bit is bit k.
Pow2(k) ==
    [i \in 1..Limbs |-> IF i = (k \div LimbBits) + 1 THEN 2 ^ (k % LimbBits) ELSE 0]

RECURSIVE MagAddAcc(_, _, _, _, _)
MagAddAcc(a, b, k, c, acc) ==
    IF k > Limbs THEN acc
    ELSE LET s == a[k] + b[k] + c
         IN  MagAddAcc(a, b, k + 1, s \div Base, Append(acc, s % Base))

\* a + b, exact.
MagAdd(a, b) == MagAddAcc(a, b, 1, 0, <<>>)

RECURSIVE MagSubAcc(_, _, _, _, _)
MagSubAcc(a, b, k, br, acc) ==
    IF k > Limbs THEN acc
    ELSE LET d == a[k] - b[k] - br
         IN  MagSubAcc(a, b, k + 1, IF d < 0 THEN 1 ELSE 0,
                       Append(acc, IF d < 0 THEN d + Base ELSE d))

\* a - b, exact, for a >= b.
MagSub(a, b) == MagSubAcc(a, b, 1, 0, <<>>)

RECURSIVE MagCmpFrom(_, _, _)
MagCmpFrom(a, b, k) ==
    IF k = 0 THEN 0
    ELSE IF a[k] # b[k] THEN (IF a[k] < b[k] THEN -1 ELSE 1)
    ELSE MagCmpFrom(a, b, k - 1)

\* -1, 0 or 1 as a < b, a = b, a > b.
MagCmp(a, b) == MagCmpFrom(a, b, Limbs)

RECURSIVE MagMulAcc(_, _, _, _, _)
MagMulAcc(a, n, k, c, acc) ==
    IF k > Limbs THEN acc
    ELSE LET s == a[k] * n + c
         IN  MagMulAcc(a, n, k + 1, s \div Base, Append(acc, s % Base))

\* a * n, exact, for a natural number n.
MagMulNat(a, n) == MagMulAcc(a, n, 1, 0, <<>>)

RECURSIVE MagDivAcc(_, _, _, _, _)
MagDivAcc(a, n, k, r, acc) ==
    IF k = 0 THEN [quot |-> acc, rem |-> r]
    ELSE LET t == r * Base + a[k]
         IN  MagDivAcc(a, n, k - 1, t % n, <<t \div n>> \o acc)

\* Quotient and remainder of a by a positive natural number n.
MagDivNat(a, n) == MagDivAcc(a, n, Limbs, 0, <<>>)

\* Number of significant bits of a magnitude, 0 for zero.
Top(a) ==
    IF a = ZeroMag THEN 0
    ELSE LET h == CHOOSE i \in 1..Limbs :
                    a[i] # 0 /\ \A j \in (i + 1)..Limbs : a[j] = 0
             b == CHOOSE n \in 1..LimbBits : 2 ^ (n - 1) <= a[h] /\ a[h] < 2 ^ n
         IN  (h - 1) * LimbBits + b

\* The natural number n < Base as a magnitude.
MagOfNat(n) == [i \in 1..Limbs |-> IF i = FracLimbs + 1 THEN n ELSE 0]

\* Round a magnitude to Precision significant bits, ties to even.  sticky
\* says that the exact value has further non-zero bits below the frame.
RoundMag(a, sticky) ==
    LET s == Top(a) - Precision  \* number of low bits to drop
    IN  IF s <= 0 THEN a
        ELSE LET q     == s \div LimbBits
                 rest  == sticky \/ (\E k \in 0..(s - 2) : BitAt(a, k) = 1)
                 up    == BitAt(a, s - 1) = 1 /\ (rest \/ BitAt(a, s) = 1)
                 trunc == [i \in 1..Limbs |->
                             IF i <= q THEN 0
                             ELSE IF i = q + 1
                             THEN a[i] - (a[i] % (2 ^ (s % LimbBits)))
                             ELSE a[i]]
             IN  IF up THEN MagAdd(trunc, Pow2(s)) ELSE trunc

\* ---- floats: sign and magnitude -------------------------------------------

Float(neg, mag) == [neg |-> neg, mag |-> mag]

\* float(n) for an integer n.
FloatOfInt(n) == Float(n < 0, MagOfNat(IF n < 0 THEN -n ELSE n))

\* Exact sum of two signed values (no rounding); zero is given sign +.
ExactAdd(x, y) ==
    IF x.neg = y.neg THEN Float(x.neg, MagAdd(x.mag, y.mag))
    ELSE LET c == MagCmp(x.mag, y.mag)
         IN  IF c = 0 THEN Float(FALSE, ZeroMag)
             ELSE IF c > 0 THEN Float(x.neg, MagSub(x.mag, y.mag))
             ELSE Float(y.neg, MagSub(y.mag, x.mag))

FNeg(x) == Float(~x.neg, x.mag)

\* Python float + float.
FAdd(x, y) == LET e == ExactAdd(x, y) IN Float(e.neg, RoundMag(e.mag, FALSE))

\* Python float * int.
FMulInt(x, n) ==
    Float(x.neg # (n < 0), RoundMag(MagMulNat(x.mag, IF n < 0 THEN -n ELSE n), FALSE))

\* Python float / int, for n # 0.
FDivInt(x, n) ==
    LET d == MagDivNat(x.mag, IF n < 0 THEN -n ELSE n)
    IN  Float(x.neg # (n < 0), RoundMag(d.quot, d.rem # 0))


\* ---- module-level data (plot.py lines 16-115) ------------------------------

None == "None"

PaletteColors ==
    << "#19B2FF", "#2ca02c", "#FF7F00", "#654CFF", "#E51932",
       "#FFBF7F", "#FFFF99", "#B2FF8C", "#A5EDFF", "#CCBFFF" >>

\* Mutant: a fifth hatch pattern.
FiveHatches == << "////////", "-----", "+++++++", "|||||||", "xxxxx" >>

HatchPatterns == << "////////", "-----", "+++++++", "|||||||" >>

\* The style table, its values kept as the source text that sets them.
style ==
    [ k \in { "axes.prop_cycle", "grid.linewidth", "grid.alpha", "axes.grid",
              "axes.axisbelow", "axes.linewidth", "xtick.major.width",
              "ytick.major.width", "xtick.minor.width", "ytick.minor.width",
              "font.family", "font.size", "axes.labelsize", "legend.fontsize",
              "xtick.labelsize", "ytick.labelsize", "patch.linewidth",
              "figure.dpi", "text.usetex" } |->
        CASE k = "axes.prop_cycle" -> "prop_cycle"
          [] k \in { "grid.linewidth", "axes.linewidth", "xtick.major.width",
                     "ytick.major.width", "xtick.minor.width",
                     "ytick.minor.width", "patch.linewidth" } -> "0.2"
          [] k = "grid.alpha" -> "0.4"
          [] k \in { "axes.grid", "axes.axisbelow", "text.usetex" } -> "True"
          [] k = "font.family" -> "serif"
          [] k \in { "font.size", "legend.fontsize", "xtick.labelsize",
                     "ytick.labelsize" } -> "doc.footnotesize"
          [] k = "axes.labelsize" -> "doc.small"
          [] k = "figure.dpi" -> "1000" ]

\* Default figure size (line 23) and the error-bar styling (lines 39-41).
figsize == "figsize"
error_kw == [elinewidth |-> "0.5", capsize |-> "1", capthick |-> "0.5"]

\* ---- inputs ----------------------------------------------------------------

\* Largest number of category labels, and of series in the layout inputs.
MaxN == 2
MaxM == 4
\* Largest number of series in the inputs that run the palettes around.
MaxWide == 22

\* The float a decimal literal d/10 denotes (0.7 is the default width_scale).
Tenths(d) == FDivInt(FloatOfInt(d), 10)

WidthScales == { Tenths(7), Tenths(10), Tenths(5) }

Labels(n) == [i \in 1..n |-> i]

\* Series number k with len values: label, values and errors are its own.
Series(k, len) ==
    [ label  |-> k,
      values |-> [i \in 1..len |-> 10 * k + i],
      errors |-> [i \in 1..len |-> k] ]

\* m series over n categories; series number bad (0: none) has one value
\* too few.
Group(n, m, bad) ==
    [j \in 1..m |-> Series(j, IF j = bad THEN n - 1 ELSE n)]

AxisLabels == { <<None, None>>, <<"Age group", "Fraction of people">> }

SubplotArgs(n, m, bad, ws, xy) ==
    [ xlabel |-> xy[1], ylabel |-> xy[2], xtick_labels |-> Labels(n),
      data |-> Group(n, m, bad), width_scale |-> ws,
      fig_name |-> None, dest_dir |-> None, set_figsize |-> None,
      legend_kwargs |-> None, hide_legend |-> FALSE ]

\* Keyword options of bar_plot: a custom figure size, legend keywords,
\* hide_legend, and the destination directory.
PlotOptions ==
    { [set_figsize |-> None, legend_kwargs |-> None, hide_legend |-> FALSE,
       dest_dir |-> "cwd"],
      [set_figsize |-> "figsize_third", legend_kwargs |-> "loc=lower right",
       hide_legend |-> FALSE, dest_dir |-> "cwd"],
      [set_figsize |-> None, legend_kwargs |-> "loc=lower right",
       hide_legend |-> TRUE, dest_dir |-> "cwd"],
      [set_figsize |-> "figsize_third", legend_kwargs |-> None,
       hide_legend |-> TRUE, dest_dir |-> "unwritable"],
      [set_figsize |-> None, legend_kwargs |-> None, hide_legend |-> FALSE,
       dest_dir |-> "unwritable"] }

PlotArgs(n, m, bad, ws, xy, o) ==
    [ SubplotArgs(n, m, bad, ws, xy) EXCEPT
        !.fig_name = "example_bar_plot", !.dest_dir = o.dest_dir,
        !.set_figsize = o.set_figsize, !.legend_kwargs = o.legend_kwargs,
        !.hide_legend = o.hide_legend ]

LayoutShapes ==
    { s \in (1..MaxN) \X (0..MaxM) \X (0..MaxM) : s[3] <= s[2] }

SubplotInputs ==
    { SubplotArgs(s[1], s[2], s[3], ws, xy) :
        s \in LayoutShapes, ws \in WidthScales, xy \in AxisLabels }
    \cup { SubplotArgs(1, m, 0, Tenths(7), <<None, None>>) :
             m \in (MaxM + 1)..MaxWide }

PlotInputs ==
    { PlotArgs(s[1], s[2], s[3], ws, <<"Age group", "Fraction of people">>, o) :
        s \in LayoutShapes, ws \in WidthScales, o \in PlotOptions }

\* The inputs of the runs that repeat a call: well-formed groups only.
RepeatSubplotInputs ==
    { SubplotArgs(n, m, 0, ws, <<"Age group", "Fraction of people">>) :
        n \in 1..MaxN, m \in 1..MaxM, ws \in WidthScales }

RepeatPlotInputs ==
    { PlotArgs(n, m, 0, ws, <<"Age group", "Fraction of people">>, o) :
        n \in 1..MaxN, m \in 1..MaxM, ws \in WidthScales, o \in PlotOptions }

\* ---- state -----------------------------------------------------------------

VARIABLES
    palette, hatch_list, rcParams,  \* module-level objects
    pc,                             \* position in the running call, or "idle"
    fn, args,                       \* the running (or last) call
    x, nb_catgs, bar_width, offset, \* locals of bar_subplot
    it, color_it, hatch_it,         \* the three iterators of the zip
    calls,                          \* calls made on the collaborator, in order
    raised,                         \* exception that ended the last call
    first                           \* observer: the first call that completed

vars == << palette, hatch_list, rcParams, pc, fn, args, x, nb_catgs,
           bar_width, offset, it, color_it, hatch_it, calls, raised, first >>

locals == << x, nb_catgs, bar_width, offset, it, color_it, hatch_it >>

Event(op, a) == [op |-> op, a |-> a]

IsBar(e) == e.op = "bar"

\* The bar draw calls of a log, in order.
BarsOf(log) == SelectSeq(log, IsBar)

NoLocals ==
    /\ x' = None /\ nb_catgs' = None /\ bar_width' = None /\ offset' = None
    /\ it' = None /\ color_it' = None /\ hatch_it' = None

\* The state once the module is loaded: the palettes defined and the style
\* applied to rcParams (lines 113-115).  obs switches the observer on or
\* off.
Loaded(obs) ==
    /\ palette = PaletteColors
    /\ hatch_list = HatchPatterns
    /\ rcParams = style
    /\ pc = "idle" /\ fn = None /\ args = None
    /\ x = None /\ nb_catgs = None /\ bar_width = None /\ offset = None
    /\ it = None /\ color_it = None /\ hatch_it = None
    /\ calls = <<>>
    /\ raised = None
    /\ first = [on |-> obs, seen |-> <<>>]

\* The observer keeps the layout inputs and the draw calls of the first call
\* that returns normally.  It is no part of the program.
Observe ==
    first' = IF first.on /\ first.seen = <<>> /\ pc' = "idle" /\ raised' = None
             THEN [ first EXCEPT !.seen =
                      << [ fn |-> fn',
                           xtick_labels |-> args'.xtick_labels,
                           data |-> args'.data,
                           width_scale |-> args'.width_scale,
                           bars |-> BarsOf(calls') ] >> ]
             ELSE first

\* An exception leaves the call: the frame and its locals are gone.
Raise(e) ==
    /\ raised' = e
    /\ pc' = "idle"
    /\ NoLocals

\* Mutant: the loop takes its colours off the module-level list and puts
\* them back at its end.
PaletteRotated == Tail(palette) \o << Head(palette) >>

\* No statement of either function assigns to, or mutates, the module-level
\* lists and the style table: cycle() and zip() only read them.
PaletteAfter == palette
ModuleUntouched ==
    /\ palette' = PaletteAfter
    /\ hatch_list' = hatch_list
    /\ rcParams' = rcParams

\* ---- bar_subplot (lines 118-141) and bar_plot (lines 144-165) -------------

CallBarSubplot(a) ==
    /\ pc = "idle"
    /\ fn' = "bar_subplot" /\ args' = a
    /\ calls' = <<>> /\ raised' = None
    /\ pc' = "layout"
    /\ UNCHANGED locals
    /\ ModuleUntouched
    /\ Observe

\* bar_plot creates the figure and axes, then calls bar_subplot.
CallBarPlot(a) ==
    /\ pc = "idle"
    /\ fn' = "bar_plot" /\ args' = a
    /\ calls' = << Event("subplots", None) >> /\ raised' = None
    /\ pc' = "layout"
    /\ UNCHANGED locals
    /\ ModuleUntouched
    /\ Observe

\* itertools.cycle: a fresh iterator stands before the first element.
NewCycle == 0

\* Mutant: the width scale is not shared out among the series.
BarWidthUndivided(ws, m) == ws

\* Line 122.
BarWidth(ws, m) == FDivInt(ws, m)

\* Mutant: the group starts at its left end, not half of it left of centre.
InitialOffsetNotHalved(bw, m) == FMulInt(bw, 1 - m)

\* Line 123: bar_width * (1 - nb_catgs) / 2, evaluated left to right.
InitialOffset(bw, m) == FDivInt(FMulInt(bw, 1 - m), 2)

\* Lines 120-125: the base positions, the bar width, the first offset, and
\* the iterators of the loop.  Dividing by an empty group's length raises.
Layout ==
    /\ pc = "layout"
    /\ IF Len(args.data) = 0
       THEN /\ Raise("ZeroDivisionError")
            /\ UNCHANGED << calls >>
       ELSE LET n  == Len(args.xtick_labels)
                m  == Len(args.data)
                bw == BarWidth(args.width_scale, m)
            IN  /\ x' = [i \in 1..n |-> i - 1]
                /\ nb_catgs' = m
                /\ bar_width' = bw
                /\ offset' = InitialOffset(bw, m)
                /\ it' = 1
                /\ color_it' = NewCycle
                /\ hatch_it' = NewCycle
                /\ pc' = "loop"
                /\ UNCHANGED << calls, raised >>
    /\ UNCHANGED << fn, args >>
    /\ ModuleUntouched
    /\ Observe

\* next() of a cycle over seq standing at position c, and where it stands
\* afterwards.
CycleNext(seq, c) == seq[c + 1]
\* Mutant: the iterator stays on the last element instead of starting over.
CycleAdvanceClamped(seq, c) == IF c + 1 < Len(seq) THEN c + 1 ELSE c
CycleAdvance(seq, c) == (c + 1) % Len(seq)

\* What the collaborator may do with n positions against a series: it draws
\* when the shapes agree; otherwise it is on its own (it raises, or it
\* broadcasts and draws).
BarOutcomes(n, d) ==
    IF Len(d.values) = n /\ Len(d.errors) = n THEN {"drawn"}
    ELSE {"drawn", "ValueError"}

\* x + offset on the array of base positions.
Shifted(xs, off) == [i \in 1..Len(xs) |-> FAdd(FloatOfInt(xs[i]), off)]

\* Mutant: the width scale is passed as the bar width.
BarCallScaleAsWidth(d, color, hatch) ==
    Event("bar",
          [ x |-> Shifted(x, offset), height |-> d.values,
            width |-> args.width_scale,
            yerr |-> d.errors, label |-> d.label, fill |-> FALSE,
            hatch |-> hatch, edgecolor |-> color, error_kw |-> error_kw ])

\* The draw call of lines 126-129.
BarCall(d, color, hatch) ==
    Event("bar",
          [ x |-> Shifted(x, offset), height |-> d.values, width |-> bar_width,
            yerr |-> d.errors, label |-> d.label, fill |-> FALSE,
            hatch |-> hatch, edgecolor |-> color, error_kw |-> error_kw ])

\* Mutant: the offset is never moved on.
NextOffsetStuck(off, bw) == off

\* Line 130.
NextOffset(off, bw) == FAdd(off, bw)

\* One iteration of the loop of lines 125-130.
DrawBar ==
    /\ pc = "loop"
    /\ it <= Len(args.data)
    /\ LET d     == args.data[it]
           color == CycleNext(palette, color_it)
           hatch == CycleNext(hatch_list, hatch_it)
       IN  \E outcome \in BarOutcomes(Len(x), d) :
             IF outcome = "drawn"
             THEN /\ calls' = Append(calls, BarCall(d, color, hatch))
                  /\ offset' = NextOffset(offset, bar_width)
                  /\ it' = it + 1
                  /\ color_it' = CycleAdvance(palette, color_it)
                  /\ hatch_it' = CycleAdvance(hatch_list, hatch_it)
                  /\ UNCHANGED << x, nb_catgs, bar_width, pc, raised >>
             ELSE /\ Raise(outcome)
                  /\ UNCHANGED << calls >>
    /\ UNCHANGED << fn, args >>
    /\ ModuleUntouched
    /\ Observe

\* Lines 132-141: the axis labels that are given, the ticks at the unshifted
\* base positions, their labels, the tick and grid styling.
AxisCalls ==
    (IF args.xlabel # None THEN << Event("set_xlabel", args.xlabel) >> ELSE <<>>)
    \o (IF args.ylabel # None THEN << Event("set_ylabel", args.ylabel) >> ELSE <<>>)
    \o << Event("set_xticks", x),
          Event("set_xticklabels", args.xtick_labels),
          Event("tick_params", "axis=both, length=0"),
          Event("grid", "visible=False, axis=x") >>

\* Mutant: bar_plot saves right after bar_subplot.
AfterSubplotSkipsFigure == IF fn = "bar_plot" THEN "save_pdf" ELSE "idle"

\* Where control is once bar_subplot has returned: back in bar_plot at line
\* 152, or with the caller.
AfterSubplot == IF fn = "bar_plot" THEN "figure" ELSE "idle"

\* The zip is exhausted: the rest of bar_subplot, which then returns.
AxisSetup ==
    /\ pc = "loop"
    /\ it > Len(args.data)
    /\ calls' = calls \o AxisCalls
    /\ pc' = AfterSubplot
    /\ NoLocals
    /\ UNCHANGED << fn, args, raised >>
    /\ ModuleUntouched
    /\ Observe

\* Lines 152-162: the default figure size, the legend unless hidden, the size
\* and the layout of the figure.
FigureCalls ==
    (IF args.hide_legend THEN <<>> ELSE << Event("legend", args.legend_kwargs) >>)
    \o << Event("set_size_inches",
                IF args.set_figsize = None THEN figsize ELSE args.set_figsize),
          Event("tight_layout", "pad=0.1") >>

FinishFigure ==
    /\ pc = "figure"
    /\ calls' = calls \o FigureCalls
    /\ pc' = "save_pdf"
    /\ UNCHANGED << fn, args, locals, raised >>
    /\ ModuleUntouched
    /\ Observe

\* The file system: savefig into a directory that cannot be written raises.
Writable(dir) == dir = "cwd"

SaveFig(ext, next) ==
    IF Writable(args.dest_dir)
    THEN /\ calls' = Append(calls, Event("savefig",
                                         << args.dest_dir, args.fig_name, ext >>))
         /\ pc' = next
         /\ UNCHANGED << locals, raised >>
    ELSE /\ Raise("OSError")
         /\ UNCHANGED << calls >>

\* Line 164.
SavePdf ==
    /\ pc = "save_pdf"
    /\ SaveFig("pdf", "save_png")
    /\ UNCHANGED << fn, args >>
    /\ ModuleUntouched
    /\ Observe

\* Line 165, after which bar_plot returns.
SavePng ==
    /\ pc = "save_png"
    /\ SaveFig("png", "idle")
    /\ UNCHANGED << fn, args >>
    /\ ModuleUntouched
    /\ Observe

\* ---- specifications --------------------------------------------------------

Init == Loaded(FALSE)

Next ==
    \/ \E a \in SubplotInputs : CallBarSubplot(a)
    \/ \E a \in PlotInputs : CallBarPlot(a)
    \/ Layout
    \/ DrawBar
    \/ AxisSetup
    \/ FinishFigure
    \/ SavePdf
    \/ SavePng

\* Any sequence of calls, of either function, on the inputs above.
Spec == Init /\ [][Next]_vars

InitRepeat == Loaded(TRUE)

NextRepeat ==
    \/ \E a \in RepeatSubplotInputs : CallBarSubplot(a)
    \/ \E a \in RepeatPlotInputs : CallBarPlot(a)
    \/ Layout
    \/ DrawBar
    \/ AxisSetup
    \/ FinishFigure
    \/ SavePdf
    \/ SavePng

\* Any sequence of calls on well-formed groups, the first one observed.
SpecRepeat == InitRepeat /\ [][NextRepeat]_vars

\* ---- exact arithmetic on floats, for stating the properties ----------------

ExactMulInt(v, n) ==
    Float(v.neg # (n < 0), MagMulNat(v.mag, IF n < 0 THEN -n ELSE n))

ExactSub(v, w) == ExactAdd(v, FNeg(w))

\* v = w as numbers (the sign of a zero does not count).
FEq(v, w) == ExactSub(v, w).mag = ZeroMag

\* v <= w as numbers.
FLeq(v, w) == LET d == ExactSub(v, w) IN d.neg \/ d.mag = ZeroMag

\* n * 2^-Precision: n times the largest relative error of one rounding.
Ulps(n) == MagMulNat(Pow2(FracBits - Precision), n)

\* |v - w| <= n * 2^-Precision.
Within(v, w, n) == MagCmp(ExactSub(v, w).mag, Ulps(n)) <= 0

\* The float a decimal literal n/d denotes.
Decimal(n, d) == FDivInt(FloatOfInt(n), d)

\* ---- the running (or last) call, as the properties see it ------------------

Called == fn # None
M == Len(args.data)
N == Len(args.xtick_labels)
Bars == BarsOf(calls)
Returned == Called /\ pc = "idle" /\ raised = None
Failed == Called /\ pc = "idle" /\ raised # None
\* Every series has one value and one error per category label.
WellFormed ==
    \A j \in 1..M : Len(args.data[j].values) = N /\ Len(args.data[j].errors) = N

\* Position handed over for slot i (from 0) by the k-th draw call (from 1).
Pos(k, i) == Bars[k].a.x[i + 1]
\* The offset the k-th draw call applied: its position for slot 0.
Off(k) == Pos(k, 0)

\* 2M times the position i + bar_width * (1 - M) / 2 + j * bar_width with
\* bar_width = width_scale / M, in exact arithmetic:
\* 2 M i + width_scale * (2 j + 1 - M).
IdealTimes2M(i, j) ==
    ExactAdd(FloatOfInt(2 * M * i), ExactMulInt(args.width_scale, 2 * j + 1 - M))

\* The same expression evaluated in floats, left to right.
FormulaInFloats(i, j) ==
    LET bw == FDivInt(args.width_scale, M)
    IN  FAdd(FAdd(FloatOfInt(i), FDivInt(FMulInt(bw, 1 - M), 2)), FMulInt(bw, j))

\* ---- C1 ---------------------------------------------------------------------

\* C1 as stated: the position for slot i in the draw call of series j equals
\* i + bar_width * (1 - M) / 2 + j * bar_width, read either as a real number
\* or as that expression evaluated in floats.
C1_AsClaimed ==
    (Called /\ WellFormed) =>
      \A k \in 1..Len(Bars) : \A i \in 0..(N - 1) :
         \/ FEq(ExactMulInt(Pos(k, i), 2 * M), IdealTimes2M(i, k - 1))
         \/ FEq(Pos(k, i), FormulaInFloats(i, k - 1))

\* C1, amended: every draw call carries N positions, and the position for
\* slot i in the call of series j is within (M + i + 3) * 2^-53 of
\* i + bar_width * (1 - M) / 2 + j * bar_width (bar_width = width_scale / M);
\* for M = 1 the positions are exactly 0 .. N-1, and for M = 2 and
\* width_scale = 0.7 the bar width is 0.35 and the offsets are -0.175, +0.175.
C1_PositionsUpToRounding ==
    Called =>
      \A k \in 1..Len(Bars) :
        /\ Len(Bars[k].a.x) = N
        /\ \A i \in 0..(N - 1) :
             /\ Within(ExactMulInt(Pos(k, i), 2 * M), IdealTimes2M(i, k - 1),
                       2 * M * (M + i + 3))
             /\ M = 1 => Pos(k, i) = FloatOfInt(i)
        /\ (M = 2 /\ args.width_scale = Decimal(7, 10)) =>
             /\ Bars[k].a.width = Decimal(35, 100)
             /\ Off(k) = IF k = 1 THEN Decimal(-175, 1000) ELSE Decimal(175, 1000)

\* A call has drawn all of at least three series over at least two slots, and
\* one of its positions is not the stated value exactly.
C1_Witness ==
    /\ Returned /\ WellFormed /\ M >= 3 /\ N >= 2 /\ Len(Bars) = M
    /\ \E k \in 1..M : \E i \in 0..(N - 1) :
         ~FEq(ExactMulInt(Pos(k, i), 2 * M), IdealTimes2M(i, k - 1))

\* ---- C2 ---------------------------------------------------------------------

\* Twice the left and the right edge of the bar the k-th draw call puts in
\* slot i: the bar is centred on its position and bar_width wide.
Left2(k, i) == ExactSub(ExactMulInt(Pos(k, i), 2), Bars[k].a.width)
Right2(k, i) == ExactAdd(ExactMulInt(Pos(k, i), 2), Bars[k].a.width)
\* Twice the ends of the span [i - width_scale / 2, i + width_scale / 2].
SpanLeft2(i) == ExactSub(FloatOfInt(2 * i), args.width_scale)
SpanRight2(i) == ExactAdd(FloatOfInt(2 * i), args.width_scale)

RECURSIVE OffsetSum(_)
\* The exact sum of the offsets of the first k draw calls.
OffsetSum(k) ==
    IF k = 0 THEN Float(FALSE, ZeroMag) ELSE ExactAdd(OffsetSum(k - 1), Off(k))

\* C3 as stated: the M offsets are evenly spaced by width_scale / M, the
\* offset of series j is the negation of that of series M-1-j, and the
\* offsets sum to 0.
C3_AsClaimed ==
    (Called /\ WellFormed /\ Len(Bars) = M) =>
      /\ \A k \in 1..(M - 1) :
           \/ FEq(ExactMulInt(ExactSub(Off(k + 1), Off(k)), M), args.width_scale)
           \/ FEq(FAdd(Off(k + 1), FNeg(Off(k))), FDivInt(args.width_scale, M))
      /\ \A k \in 1..M : FEq(Off(k), FNeg(Off(M + 1 - k)))
      /\ FEq(OffsetSum(M), FloatOfInt(0))

\* C3, amended: up to rounding.  Two successive offsets differ by
\* width_scale / M to within 2 (M + 3) * 2^-53, the offsets of series j and
\* M-1-j sum to 0 to within 2 (M + 3) * 2^-53, and all M offsets sum to 0 to
\* within M (M + 3) * 2^-53; for M <= 3 the symmetry and the sum are exact.
C3_OffsetsUpToRounding ==
    (Called /\ Len(Bars) = M) =>
      /\ \A k \in 1..(M - 1) :
           Within(ExactMulInt(ExactSub(Off(k + 1), Off(k)), M), args.width_scale,
                  2 * M * (M + 3))
      /\ \A k \in 1..M :
           Within(Off(k), FNeg(Off(M + 1 - k)), 2 * (M + 3))
      /\ Within(OffsetSum(M), FloatOfInt(0), M * (M + 3))
      /\ M <= 3 =>
           /\ \A k \in 1..M : FEq(Off(k), FNeg(Off(M + 1 - k)))
           /\ FEq(OffsetSum(M), FloatOfInt(0))

\* A call has drawn all of at least four series, and its offsets are not
\* exactly symmetric.
C3_Witness ==
    /\ Returned /\ WellFormed /\ M >= 4 /\ Len(Bars) = M
    /\ \E k \in 1..M : ~FEq(Off(k), FNeg(Off(M + 1 - k)))

\* ---- C4 ---------------------------------------------------------------------

\* C4: the series at index j is drawn with palette[j mod 10] and
\* hatch_list[j mod 4]; the series at index k + 10 gets the colour, and the
\* series at index k + 4 the hatch, of the series at index k; and the loop
\* draws every series: it has issued one draw call per series taken so far,
\* and a call that returns has issued one per series of the group.
C4_CyclicStyle ==
    Called =>
      /\ \A k \in 1..Len(Bars) :
           /\ Bars[k].a.label = args.data[k].label
           /\ Bars[k].a.edgecolor = PaletteColors[((k - 1) % 10) + 1]
           /\ Bars[k].a.hatch = HatchPatterns[((k - 1) % 4) + 1]
           /\ k > 10 => Bars[k].a.edgecolor = Bars[k - 10].a.edgecolor
           /\ k > 4 => Bars[k].a.hatch = Bars[k - 4].a.hatch
      /\ pc = "loop" => Len(Bars) = it - 1
      /\ (pc \notin {"layout", "loop"} /\ raised = None) => Len(Bars) = M

\* A call on more than 10 series has returned, all of them drawn.
C4_Witness == Returned /\ M > 10 /\ Len(Bars) = M

\* ---- C5 ---------------------------------------------------------------------

\* C5 as stated: when a series has a number of values other than the number
\* of category labels, the call ends with InvalidSeriesShape raised and
\* without a draw call made.
C5_AsClaimed ==
    (Called /\ ~WellFormed /\ pc = "idle") =>
      /\ raised = "InvalidSeriesShape"
      /\ Bars = <<>>

\* ---- C6 ---------------------------------------------------------------------

\* C6 as stated: a call with an empty series list ends with EmptyGroup
\* raised, and without a draw, axis-label, tick, legend or save call made.
C6_AsClaimed ==
    (Called /\ M = 0 /\ pc = "idle") =>
      /\ raised = "EmptyGroup"
      /\ \A k \in 1..Len(calls) :
           calls[k].op \notin { "bar", "set_xlabel", "set_ylabel", "set_xticks",
                                "set_xticklabels", "tick_params", "legend",
                                "savefig" }

\* ---- C7 ---------------------------------------------------------------------

\* The last call had the labels, series and width_scale of the observed one.
SameLayoutInputs ==
    /\ args.xtick_labels = first.seen[1].xtick_labels
    /\ args.data = first.seen[1].data
    /\ args.width_scale = first.seen[1].width_scale

\* C7: after any sequence of calls palette, hatch_list and the style table
\* are as loaded; a call with the labels, series and width_scale of the first
\* call issues the same draw calls as it did; and the first draw call of every
\* call takes the first colour and the first hatch.
C7_NoHiddenState ==
    /\ palette = PaletteColors
    /\ hatch_list = HatchPatterns
    /\ rcParams = style
    /\ (Returned /\ first.seen # <<>> /\ SameLayoutInputs) =>
         Bars = first.seen[1].bars
    /\ (Called /\ Len(Bars) >= 1) =>
         /\ Bars[1].a.edgecolor = PaletteColors[1]
         /\ Bars[1].a.hatch = HatchPatterns[1]

\* bar_plot has returned from the labels, series and width_scale that an
\* earlier bar_subplot call, the first to return, was given.
C7_Witness ==
    /\ Returned /\ fn = "bar_plot" /\ M >= 3
    /\ first.seen # <<>> /\ first.seen[1].fn = "bar_subplot"
    /\ SameLayoutInputs

\* ---- C8 ---------------------------------------------------------------------

IsSave(e) == e.op = "savefig"
Saves == SelectSeq(calls, IsSave)

\* Some call before the k-th is a call of op.
Earlier(op, k) == \E h \in 1..(k - 1) : calls[h].op = op

\* C8: a bar_plot call that returns has written {fig_name}.pdf and then
\* {fig_name}.png under dest_dir, as its last two calls, and nothing else;
\* whenever a file is written every series has been drawn, the legend placed
\* (unless hide_legend) and the figure size set; a call that fails before
\* has written no file.
C8_SavesLast ==
    (Called /\ fn = "bar_plot") =>
      /\ Returned =>
           /\ Saves = << Event("savefig", << args.dest_dir, args.fig_name, "pdf" >>),
                         Event("savefig", << args.dest_dir, args.fig_name, "png" >>) >>
           /\ SubSeq(calls, Len(calls) - 1, Len(calls)) = Saves
      /\ \A k \in 1..Len(calls) :
           calls[k].op = "savefig" =>
             /\ Len(BarsOf(SubSeq(calls, 1, k - 1))) = M
             /\ ~args.hide_legend => Earlier("legend", k)
             /\ Earlier("set_size_inches", k)
      /\ Failed => Saves = <<>>

\* bar_plot has returned from a group of at least two series, legend shown.
C8_Witness ==
    Returned /\ fn = "bar_plot" /\ M >= 2 /\ ~args.hide_legend /\ Len(Saves) = 2

\* ---- C9 ---------------------------------------------------------------------

\* C9: the k-th draw call carries the values, errors and label of the k-th
\* series and the bar width width_scale / M; the offset moves on by bar_width
\* once per draw call; a call that returns has made M draw calls; and the
\* ticks are set, to the positions 0 .. N-1, only after all M draw calls.
C9_DrawCalls ==
    Called =>
      /\ \A k \in 1..Len(Bars) :
           /\ Bars[k].a.height = args.data[k].values
           /\ Bars[k].a.yerr = args.data[k].errors
           /\ Bars[k].a.label = args.data[k].label
           /\ Bars[k].a.width = FDivInt(args.width_scale, M)
           /\ k > 1 => Off(k) = FAdd(Off(k - 1), Bars[k].a.width)
      /\ (pc = "loop" /\ Len(Bars) >= 1) =>
           offset = FAdd(Off(Len(Bars)), bar_width)
      /\ (pc \notin {"layout", "loop"} /\ raised = None) => Len(Bars) = M
      /\ \A k \in 1..Len(calls) :
           calls[k].op = "set_xticks" =>
             /\ calls[k].a = [i \in 1..N |-> i - 1]
             /\ Len(BarsOf(SubSeq(calls, 1, k - 1))) = M
             /\ \A h \in (k + 1)..Len(calls) : calls[h].op # "bar"

\* A call on at least two well-formed series over at least two slots has
\* returned.
C9_Witness ==
    /\ Returned /\ WellFormed /\ M >= 2 /\ N >= 2
    /\ \E k \in 1..Len(calls) : calls[k].op = "set_xticks"

\* ---- C10 --------------------------------------------------------------------

SamePair(k, h) ==
    /\ Bars[k].a.edgecolor = Bars[h].a.edgecolor
    /\ Bars[k].a.hatch = Bars[h].a.hatch

\* C10: two series of one call whose indices differ by less than 20 get
\* different (colour, hatch) pairs, two whose indices differ by 20 get the
\* same pair, and more than 20 draw calls include two with the same pair.
C10_PairPeriod ==
    Called =>
      /\ \A k, h \in 1..Len(Bars) :
           /\ (k < h /\ h - k < 20) => ~SamePair(k, h)
           /\ h - k = 20 => SamePair(k, h)
      /\ Len(Bars) > 20 => \E k, h \in 1..Len(Bars) : k # h /\ SamePair(k, h)

\* A call on more than 20 series has returned, all of them drawn.
C10_Witness == Returned /\ M > 20 /\ Len(Bars) = M

====
